---- MODULE Spec2Model ----
(***************************************************************************)
(* Verification model of the Cortex Search chat front-end                  *)
(* ("Snowflake-Cortex Search/frontend code.py"): the response post-        *)
(* processing functions (ResponseProcessor) as operators over texts, and   *)
(* the chat session (ChatState / ChatApp) as a state machine whose actions *)
(* are whole Streamlit script runs.                                        *)
(*                                                                         *)
(* A text is a sequence of characters; a character is a one-symbol string. *)
(* Characters outside ASCII are written by their code point ("U+201A").    *)
(*                                                                         *)
(* The Cortex Analyst chat ("Snowflake-Cortex Analyst/Frontend.py") is a   *)
(* second state machine over the variable analyst. It never looks inside   *)
(* a text, so there a text is a sequence of opaque pieces. Its SQL result  *)
(* expanders and feedback form (lines 167-261) touch form_submitted only   *)
(* and are left out.                                                       *)
(***************************************************************************)
EXTENDS Integers, Sequences, FiniteSets, TLC

(***************************************************************************)
(* Bounds of the model                                                     *)
(***************************************************************************)
\* a turn starts only while the transcript can still take its two messages
MaxMsgs == 4
\* the suggested-question buttons that get clicked are the first MaxButton
MaxButton == 2
\* number of fragments a generated completion text is composed of
MaxFrags == 2
\* an Analyst turn starts only while its transcript can still take two messages
MaxAnalystMsgs == 6

(***************************************************************************)
(* Literal texts of the source                                             *)
(***************************************************************************)
HdrRelatedQuestions ==
    <<"R","e","l","a","t","e","d"," ","Q","u","e","s","t","i","o","n","s",":">>
HdrYouMightAlso ==
    <<"Y","o","u"," ","m","i","g","h","t"," ","a","l","s","o"," ","w","a","n","t"," ","t","o",
      " ","k","n","o","w",":">>
HdrSuggestedQuestions ==
    <<"S","u","g","g","e","s","t","e","d"," ","Q","u","e","s","t","i","o","n","s",":">>
HdrCommonQuestions ==
    <<"C","o","m","m","o","n"," ","Q","u","e","s","t","i","o","n","s",":">>
HdrFollowUpQuestions ==
    <<"F","o","l","l","o","w","-","u","p"," ","Q","u","e","s","t","i","o","n","s",":">>
HdrCommonIssues ==
    <<"C","o","m","m","o","n"," ","I","s","s","u","e","s",":">>
HdrCommonIssuesAndSolutions ==
    <<"C","o","m","m","o","n"," ","I","s","s","u","e","s"," ","a","n","d"," ","S","o","l","u",
      "t","i","o","n","s",":">>
HdrScenarioBasedQuestions ==
    <<"S","c","e","n","a","r","i","o","-","B","a","s","e","d"," ","Q","u","e","s","t","i","o",
      "n","s",":">>
HdrCommonIssue ==
    <<"C","o","m","m","o","n"," ","I","s","s","u","e",":">>
HdrScenario ==
    <<"S","c","e","n","a","r","i","o",":">>
HdrScenarios ==
    <<"S","c","e","n","a","r","i","o","s",":">>
HdrUseCase ==
    <<"U","s","e"," ","C","a","s","e",":">>
HdrUseCases ==
    <<"U","s","e"," ","C","a","s","e","s",":">>
HdrCommonQueries ==
    <<"C","o","m","m","o","n"," ","Q","u","e","r","i","e","s",":">>
VideoGuide ==
    <<"V","i","d","e","o"," ","G","u","i","d","e",":">>
VideoWord ==
    <<"v","i","d","e","o">>
YoutubeCom ==
    <<"y","o","u","t","u","b","e",".","c","o","m">>
YoutuBe ==
    <<"y","o","u","t","u",".","b","e">>
InternalVideoPath ==
    <<"i","n","t","e","r","n","a","l","_","v","i","d","e","o","_","p","a","t","h">>
YoutubeSearchPrefix ==
    <<"h","t","t","p","s",":","/","/","w","w","w",".","y","o","u","t","u","b","e",".","c","o",
      "m","/","r","e","s","u","l","t","s","?","s","e","a","r","c","h","_","q","u","e","r","y",
      "=">>
YoutubeSearchSuffix ==
    <<"+","h","o","s","p","i","t","a","l","+","i","n","f","o","r","m","a","t","i","o","n","+",
      "s","y","s","t","e","m">>
\* the video-camera glyph as the source file holds it (four code points)
Glyph ==
    <<"U+F8FF","U+00FC","U+00EC","U+03C0">>

(***************************************************************************)
(* Character classes of Python's re and str                                *)
(***************************************************************************)
UpperLetters ==
    <<"A","B","C","D","E","F","G","H","I","J","K","L","M","N","O","P","Q","R","S","T","U","V",
      "W","X","Y","Z">>
LowerLetters ==
    <<"a","b","c","d","e","f","g","h","i","j","k","l","m","n","o","p","q","r","s","t","u","v",
      "w","x","y","z">>
\* [A-Z]
UpperSet == {UpperLetters[i] : i \in 1..Len(UpperLetters)}
\* \d
DigitSet == {"0","1","2","3","4","5","6","7","8","9"}
\* \s, and what str.strip() removes
SpaceSet == {" ", "\t", "\n", "\r"}
\* the bullet class [-‚Ä¢*] as the source file holds it
BulletSet == {"-", "U+201A", "U+00C4", "U+00A2", "*"}
\* the terminators excluded by [^.!?]
TerminatorSet == {".", "!", "?"}
\* the question length limit: len(clean_question) < 100
MaxQuestionLen == 100
\* the minimum body length of a general question: {10,}
MinGeneralLen == 10
\* questions[:4]
MaxQuestions == 4
\* the threshold below which the next extraction pass runs: len(questions) < 3
EnoughQuestions == 3

(***************************************************************************)
(* Text helpers                                                            *)
(***************************************************************************)
\* a local variable: Body with its name bound to value
With(value, Body(_)) == Body(value)

Range(s) == {s[i] : i \in 1..Len(s)}

\* s[a..b], empty when a > b (a Python slice with 1-based inclusive ends)
Slice(s, a, b) == IF a > b THEN <<>> ELSE SubSeq(s, a, b)

\* p occurs in s at index i
StartsAt(s, p, i) ==
    /\ i >= 1
    /\ i + Len(p) - 1 <= Len(s)
    /\ \A k \in 1..Len(p) : s[i + k - 1] = p[k]

\* the least element of a non-empty set of integers
Min(set) == CHOOSE x \in set : \A y \in set : x <= y

\* the greatest element of a non-empty set of integers
Max(set) == CHOOSE x \in set : \A y \in set : x >= y

\* the least index >= from at which p occurs in s, 0 when there is none
Find(s, p, from) ==
    LET hits == {i \in from..(Len(s) - Len(p) + 1) : StartsAt(s, p, i)}
    IN  IF hits = {} THEN 0 ELSE Min(hits)

\* p in s
Contains(s, p) == \E i \in 1..(Len(s) - Len(p) + 1) : StartsAt(s, p, i)

\* the least index >= from whose character is in set, 0 when there is none
FirstIn(s, from, set) ==
    LET hits == {i \in from..Len(s) : s[i] \in set}
    IN  IF hits = {} THEN 0 ELSE Min(hits)

\* the least index >= from whose character is not in set, Len(s)+1 when none
FirstNotIn(s, from, set) ==
    LET hits == {i \in from..Len(s) : s[i] \notin set}
    IN  IF hits = {} THEN Len(s) + 1 ELSE Min(hits)

\* the greatest index <= from whose character is not in set, 0 when none
LastNotIn(s, from, set) ==
    LET hits == {i \in 1..from : s[i] \notin set}
    IN  IF hits = {} THEN 0 ELSE Max(hits)

\* str.strip()
Strip(s) == Slice(s, FirstNotIn(s, 1, SpaceSet), LastNotIn(s, Len(s), SpaceSet))

\* one character of str.lower()
LowerChar(c) ==
    IF c \in UpperSet
    THEN LowerLetters[CHOOSE i \in 1..Len(UpperLetters) : UpperLetters[i] = c]
    ELSE c

\* str.lower()
Lower(s) == [i \in 1..Len(s) |-> LowerChar(s[i])]

\* str.replace(c, "") for a single character c
RemoveChar(s, c) == SelectSeq(s, LAMBDA x : x # c)

\* str.replace(c, d) for single characters c, d
ReplaceChar(s, c, d) == [i \in 1..Len(s) |-> IF s[i] = c THEN d ELSE s[i]]

\* a variant that leaves the text as it is
KeepQuotes(s) == s

\* response.replace("'", "")
StripQuotes(s) == RemoveChar(s, "'")

\* the index at which (?=\n\n|\Z) or (?:\n\n|\Z) first holds at or after from
SectionEnd(s, from) ==
    LET e == Find(s, <<"\n", "\n">>, from)
    IN  IF e = 0 THEN Len(s) + 1 ELSE e

(***************************************************************************)
(* ResponseProcessor.clean_assistant_response                              *)
(***************************************************************************)
patterns_to_remove ==
    <<HdrRelatedQuestions, HdrYouMightAlso, HdrSuggestedQuestions, HdrCommonQuestions,
      HdrFollowUpQuestions>>

\* where a match of (?:\n|\r\n)?hdr starts, for hdr found at j, scanning from pos
SectionMatchStart(s, j, pos) ==
    IF j - 2 >= pos /\ s[j - 2] = "\r" /\ s[j - 1] = "\n" THEN j - 2
    ELSE IF j - 1 >= pos /\ s[j - 1] = "\n" THEN j - 1
    ELSE j

RECURSIVE RemoveSection(_, _, _)
\* re.sub(r'(?:\n|\r\n)?hdr.*?(?=\n\n|\Z)', '', s, flags=re.DOTALL), from pos on
RemoveSection(s, hdr, pos) ==
    LET j == Find(s, hdr, pos)
    IN  IF j = 0 THEN Slice(s, pos, Len(s))
        ELSE Slice(s, pos, SectionMatchStart(s, j, pos) - 1)
                 \o RemoveSection(s, hdr, SectionEnd(s, j + Len(hdr)))

RECURSIVE RemoveSections(_, _)
\* the loop over patterns_to_remove, from pattern k on
RemoveSections(s, k) ==
    IF k > Len(patterns_to_remove) THEN s
    ELSE RemoveSections(RemoveSection(s, patterns_to_remove[k], 1), k + 1)

RECURSIVE CollapseNewlines(_, _)
\* re.sub(r'\n{3,}', '\n\n', s), from index i on
CollapseNewlines(s, i) ==
    LET j == Find(s, <<"\n", "\n", "\n">>, i)
    IN  IF j = 0 THEN Slice(s, i, Len(s))
        ELSE Slice(s, i, j - 1) \o <<"\n", "\n">>
                 \o CollapseNewlines(s, FirstNotIn(s, j, {"\n"}))

clean_assistant_response(content) ==
    Strip(CollapseNewlines(RemoveSections(content, 1), 1))

(***************************************************************************)
(* ResponseProcessor.extract_related_questions and its helpers             *)
(***************************************************************************)
section_patterns ==
    <<HdrRelatedQuestions, HdrCommonIssues, HdrCommonIssuesAndSolutions,
      HdrScenarioBasedQuestions, HdrFollowUpQuestions, HdrYouMightAlso>>

\* each context pattern as the alternatives its optional "s" allows
context_patterns ==
    <<{HdrCommonIssue, HdrCommonIssues}, {HdrScenario, HdrScenarios},
      {HdrUseCase, HdrUseCases}, {HdrCommonQueries}>>

\* group 1 of hdr(.*?)(?:\n\n|\Z) for hdr found at j
SectionText(s, hdr, j) ==
    Slice(s, j + Len(hdr), SectionEnd(s, j + Len(hdr)) - 1)

\* the end of \s*(.*?\?) started at k: the index of its "?", 0 when it fails
QuestionEnd(s, k) ==
    LET t == FirstIn(s, FirstNotIn(s, k, SpaceSet), {"?", "\n"})
    IN  IF t # 0 /\ s[t] = "?" THEN t ELSE 0

RECURSIVE BulletQuestions(_, _)
\* re.findall(r'[-‚Ä¢*]\s*(.*?\?)', s), from index i on
BulletQuestions(s, i) ==
    LET starts == {j \in i..Len(s) : s[j] \in BulletSet /\ QuestionEnd(s, j + 1) # 0}
        j == Min(starts)
    IN  IF starts = {} THEN <<>>
        ELSE <<Slice(s, FirstNotIn(s, j + 1, SpaceSet), QuestionEnd(s, j + 1))>>
                 \o BulletQuestions(s, QuestionEnd(s, j + 1) + 1)

\* the index after \d+\. started at i, 0 when it does not match there
NumberEnd(s, i) ==
    LET d == FirstNotIn(s, i, DigitSet)
    IN  IF i <= Len(s) /\ s[i] \in DigitSet /\ d <= Len(s) /\ s[d] = "." THEN d + 1 ELSE 0

RECURSIVE NumberedQuestions(_, _)
\* re.findall(r'\d+\.\s*(.*?\?)', s), from index i on
NumberedQuestions(s, i) ==
    LET starts == {j \in i..Len(s) :
                      NumberEnd(s, j) # 0 /\ QuestionEnd(s, NumberEnd(s, j)) # 0}
        j == Min(starts)
    IN  IF starts = {} THEN <<>>
        ELSE <<Slice(s, FirstNotIn(s, NumberEnd(s, j), SpaceSet),
                     QuestionEnd(s, NumberEnd(s, j)))>>
                 \o NumberedQuestions(s, QuestionEnd(s, NumberEnd(s, j)) + 1)

RECURSIVE CapitalQuestions(_, _, _)
\* re.findall(r'([A-Z][^.!?]{n,}?\?)', s), from index i on
CapitalQuestions(s, i, n) ==
    LET End(j) == FirstIn(s, j + 1, TerminatorSet)
        starts == {j \in i..Len(s) :
                      /\ s[j] \in UpperSet
                      /\ End(j) # 0 /\ s[End(j)] = "?" /\ End(j) - j - 1 >= n}
        j == Min(starts)
    IN  IF starts = {} THEN <<>>
        ELSE <<Slice(s, j, End(j))>> \o CapitalQuestions(s, End(j) + 1, n)

\* a variant of the test without the "video" condition
KeepQuestionAnyTopic(questions, clean_question) ==
    /\ clean_question # <<>>
    /\ clean_question \notin Range(questions)
    /\ Len(clean_question) < MaxQuestionLen

\* the test guarding questions.append(clean_question)
KeepQuestion(questions, clean_question) ==
    /\ clean_question # <<>>
    /\ clean_question \notin Range(questions)
    /\ ~Contains(Lower(clean_question), VideoWord)
    /\ Len(clean_question) < MaxQuestionLen

RECURSIVE AppendQuestions(_, _, _)
\* the loop "for question in found: ... questions.append(clean_question)"
AppendQuestions(questions, found, k) ==
    IF k > Len(found) THEN questions
    ELSE AppendQuestions(
             IF KeepQuestion(questions, Strip(found[k]))
             THEN Append(questions, Strip(found[k]))
             ELSE questions,
             found, k + 1)

RECURSIVE SectionQuestions(_, _, _)
\* the loop over section_patterns, from pattern k on
SectionQuestions(questions, response, k) ==
    IF k > Len(section_patterns) THEN questions
    ELSE LET hdr == section_patterns[k]
             j == Find(response, hdr, 1)
             section_text == SectionText(response, hdr, j)
         IN  SectionQuestions(
                 IF j = 0 THEN questions
                 ELSE AppendQuestions(questions,
                          BulletQuestions(section_text, 1)
                              \o NumberedQuestions(section_text, 1), 1),
                 response, k + 1)

RECURSIVE JoinChunks(_, _)
\* ' '.join(chunks), from chunk k on
JoinChunks(chunks, k) ==
    IF k > Len(chunks) THEN <<>>
    ELSE IF k = Len(chunks) THEN chunks[k]
    ELSE chunks[k] \o <<" ">> \o JoinChunks(chunks, k + 1)

\* where re.search finds one of the alternatives first: <<index, header>>
FirstHeader(s, alternatives) ==
    LET hits == {h \in alternatives : Find(s, h, 1) # 0}
    IN  IF hits = {} THEN <<0, <<>>>>
        ELSE LET h == CHOOSE x \in hits : \A y \in hits : Find(s, x, 1) <= Find(s, y, 1)
             IN  <<Find(s, h, 1), h>>

RECURSIVE ContextQuestions(_, _, _)
\* the loop over context_patterns, from pattern k on
ContextQuestions(questions, combined_chunks, k) ==
    IF k > Len(context_patterns) THEN questions
    ELSE LET m == FirstHeader(combined_chunks, context_patterns[k])
             section_text == SectionText(combined_chunks, m[2], m[1])
             context_questions ==
                 IF BulletQuestions(section_text, 1) # <<>>
                 THEN BulletQuestions(section_text, 1)
                 ELSE CapitalQuestions(section_text, 1, 0)
         IN  ContextQuestions(
                 IF m[1] = 0 THEN questions
                 ELSE AppendQuestions(questions, context_questions, 1),
                 combined_chunks, k + 1)

\* context_data is a record [results |-> sequence of [chunk, relative_path]]
_extract_questions_from_context(questions, context_data) ==
    ContextQuestions(questions,
        JoinChunks([i \in 1..Len(context_data.results) |-> context_data.results[i].chunk], 1),
        1)

_extract_general_questions(questions, response) ==
    AppendQuestions(questions, CapitalQuestions(response, 1, MinGeneralLen), 1)

\* a variant of extract_related_questions that runs its three passes whatever
\* the earlier ones collected
ExtractWithEveryPass(response, context_data) ==
    With(SectionQuestions(<<>>, response, 1), LAMBDA q1 :
    With(_extract_questions_from_context(q1, context_data), LAMBDA q2 :
    With(_extract_general_questions(q2, response), LAMBDA q3 :
    Slice(q3, 1, IF Len(q3) < MaxQuestions THEN Len(q3) ELSE MaxQuestions))))

extract_related_questions(response, context_data) ==
    With(SectionQuestions(<<>>, response, 1), LAMBDA q1 :
    With(IF Len(q1) < EnoughQuestions
         THEN _extract_questions_from_context(q1, context_data)
         ELSE q1, LAMBDA q2 :
    With(IF Len(q2) < EnoughQuestions
         THEN _extract_general_questions(q2, response)
         ELSE q2, LAMBDA q3 :
    Slice(q3, 1, IF Len(q3) < MaxQuestions THEN Len(q3) ELSE MaxQuestions))))

(***************************************************************************)
(* ResponseProcessor.process_video_links                                   *)
(***************************************************************************)
\* the match of Video Guide:\s*\[(.*?)\]\((.*?)\) with "Video Guide:" at j:
\* [ok, title, url, end]
VideoMatchAt(s, j) ==
    LET a == FirstNotIn(s, j + Len(VideoGuide), SpaceSet)
        k == Find(s, <<"]", "(">>, a + 1)
        r == FirstIn(s, k + 2, {")", "\n"})
        ok == /\ a <= Len(s) /\ s[a] = "["
              /\ k # 0 /\ "\n" \notin Range(Slice(s, a + 1, k - 1))
              /\ r # 0 /\ s[r] = ")"
    IN  IF ok
        THEN [ok |-> TRUE, title |-> Slice(s, a + 1, k - 1), url |-> Slice(s, k + 2, r - 1),
              end |-> r]
        ELSE [ok |-> FALSE, title |-> <<>>, url |-> <<>>, end |-> 0]

\* a variant of replace_video_link that looks for internal_video_path first
ReplaceInternalFirst(video_title, video_url) ==
    LET youtube_search_url ==
            YoutubeSearchPrefix \o ReplaceChar(video_title, " ", "+") \o YoutubeSearchSuffix
        url == IF Contains(video_url, InternalVideoPath) THEN youtube_search_url
               ELSE video_url
    IN  VideoGuide \o <<" ", "[">> \o Glyph \o <<" ">> \o video_title \o <<"]", "(">>
            \o url \o <<")">>

replace_video_link(video_title, video_url) ==
    LET youtube_search_url ==
            YoutubeSearchPrefix \o ReplaceChar(video_title, " ", "+") \o YoutubeSearchSuffix
        url == IF Contains(video_url, YoutubeCom) \/ Contains(video_url, YoutuBe)
               THEN video_url
               ELSE IF Contains(video_url, InternalVideoPath) THEN youtube_search_url
               ELSE video_url
    IN  VideoGuide \o <<" ", "[">> \o Glyph \o <<" ">> \o video_title \o <<"]", "(">>
            \o url \o <<")">>

RECURSIVE VideoSub(_, _)
\* re.sub(video_pattern, replace_video_link, s), from pos on
VideoSub(s, pos) ==
    LET starts == {j \in pos..Len(s) : StartsAt(s, VideoGuide, j) /\ VideoMatchAt(s, j).ok}
        m == VideoMatchAt(s, Min(starts))
    IN  IF starts = {} THEN Slice(s, pos, Len(s))
        ELSE Slice(s, pos, Min(starts) - 1) \o replace_video_link(m.title, m.url)
                 \o VideoSub(s, m.end + 1)

process_video_links(response) == VideoSub(response, 1)

(***************************************************************************)
(* APP_CONFIG                                                              *)
(***************************************************************************)
NUM_CHUNKS == 10
SLIDING_WINDOW == 7
MODEL == "llama3.3-70b"
DEFAULT_CATEGORY == "ALL"
SEARCH_COLUMNS == <<"chunk", "relative_path", "category">>
InitialQuestion1 ==
    <<"W","h","a","t"," ","a","r","e"," ","t","h","e"," ","p","a","t","i","e","n","t","'","s",
      " ","p","r","o","f","i","l","e"," ","a","n","d"," ","a","d","m","i","s","s","i","o","n",
      " ","d","e","t","a","i","l","s","?">>
InitialQuestion2 ==
    <<"W","h","a","t"," ","i","s"," ","t","h","e"," ","f","i","n","a","l"," ","d","i","a","g",
      "n","o","s","i","s"," ","m","e","n","t","i","o","n","e","d"," ","i","n"," ","t","h","e",
      " ","r","e","p","o","r","t","?">>
InitialQuestion3 ==
    <<"W","h","a","t"," ","t","r","e","a","t","m","e","n","t"," ","p","r","o","t","o","c","o",
      "l","s"," ","a","n","d"," ","m","e","d","i","c","a","t","i","o","n","s"," ","w","e","r",
      "e"," ","a","d","m","i","n","i","s","t","e","r","e","d"," ","d","u","r","i","n","g"," ",
      "t","h","e"," ","h","o","s","p","i","t","a","l"," ","s","t","a","y","?">>
InitialQuestion4 ==
    <<"W","h","a","t"," ","d","o","e","s"," ","t","h","e"," ","d","i","s","c","h","a","r","g",
      "e"," ","s","u","m","m","a","r","y"," ","i","n","d","i","c","a","t","e"," ","r","e","g",
      "a","r","d","i","n","g"," ","t","h","e"," ","p","a","t","i","e","n","t","'","s"," ","p",
      "r","o","g","r","e","s","s"," ","a","n","d"," ","f","o","l","l","o","w","-","u","p"," ",
      "c","a","r","e","?">>
SpecExample ==
    <<"A","n","s","w","e","r",".","\n","\n","R","e","l","a","t","e","d"," ","Q","u","e","s","t",
      "i","o","n","s",":","\n","-"," ","Q","1","?","\n","-"," ","Q","2","?","\n","\n">>
NoQuestionsOutput ==
    <<"I","t","'","s"," ","h","e","r","e",".","\n","V","i","d","e","o"," ","G","u","i","d","e",
      ":"," ","[","I","n","t","r","o"," ","C","l","i","p","]","(","i","n","t","e","r","n","a",
      "l","_","v","i","d","e","o","_","p","a","t","h","/","a",".","m","p","4",")">>
ManyQuestionsPrefix ==
    <<"L","i","s","t","e","d",".","\n","\n","R","e","l","a","t","e","d"," ","Q","u","e","s","t",
      "i","o","n","s",":","\n","-"," ","Q","a","?","\n","-"," ","Q","b","?","\n","-"," ","W",
      "h","y"," ","t","h","i","s"," ","V","i","d","e","o","?","\n","-"," ">>
ManyQuestionsSuffix ==
    <<"\n","-"," ","Q","c","?","\n","-"," ","Q","d","?","\n","-"," ","Q","e","?">>
SummaryQuoted ==
    <<"t","h","e"," ","p","a","t","i","e","n","t","'","s"," ","l","a","b","s">>
ChatQuestionQuoted ==
    <<"W","h","a","t","'","s"," ","n","e","x","t","?">>
ChunkIssues ==
    <<"N","o","t","e","s","."," ","C","o","m","m","o","n"," ","I","s","s","u","e","s",":","\n",
      "-"," ","W","h","y"," ","a","?">>
ChunkPlain ==
    <<"A","d","m","i","t","t","e","d"," ","o","n"," ","d","a","y"," ","o","n","e",".">>
FragAnswer ==
    <<"A","n","s","w","e","r",".","\n","\n">>
FragRelated ==
    <<"R","e","l","a","t","e","d"," ","Q","u","e","s","t","i","o","n","s",":","\n","-"," ","Q",
      "1","?","\n","-"," ","Q","2","?","\n","\n">>
FragThird ==
    <<"F","o","l","l","o","w","-","u","p"," ","Q","u","e","s","t","i","o","n","s",":","\n","1",
      "."," ","Q","3","?","\n","\n">>
FragInternalVideo ==
    <<"V","i","d","e","o"," ","G","u","i","d","e",":"," ","[","I","n","t","r","o"," ","C","l",
      "i","p","]","(","i","n","t","e","r","n","a","l","_","v","i","d","e","o","_","p","a","t",
      "h","/","a",".","m","p","4",")","\n">>
FragYoutubeVideo ==
    <<"V","i","d","e","o"," ","G","u","i","d","e",":"," ","[","D","e","m","o","]","(","h","t",
      "t","p","s",":","/","/","y","o","u","t","u",".","b","e","/","x",")","\n">>
FragOtherVideo ==
    <<"V","i","d","e","o"," ","G","u","i","d","e",":"," ","[","M","a","p","]","(","h","t","t",
      "p",":","/","/","h",".","i","s","/","m",")","\n">>
FragBothVideo ==
    <<"V","i","d","e","o"," ","G","u","i","d","e",":"," ","[","T","o","u","r","]","(","h","t",
      "t","p","s",":","/","/","y","o","u","t","u","b","e",".","c","o","m","/","i","n","t","e",
      "r","n","a","l","_","v","i","d","e","o","_","p","a","t","h","/","t",")","\n">>
FragGeneral ==
    <<"I","s"," ","t","h","i","s"," ","a"," ","g","e","n","e","r","a","l"," ","q","u","e","s",
      "t","i","o","n","?">>
FragQuoted ==
    <<"I","t","'","s"," ","d","o","n","e","."," ">>
INITIAL_QUESTIONS ==
    <<InitialQuestion1, InitialQuestion2, InitialQuestion3, InitialQuestion4>>

(***************************************************************************)
(* Inputs: what the user types and what the services answer                *)
(***************************************************************************)
\* a question of exactly MaxQuestionLen characters
LongQuestion == [i \in 1..(MaxQuestionLen - 1) |-> "x"] \o <<"?">>

\* a completion with seven bullets, one naming a video and one too long
ManyQuestionsOutput == ManyQuestionsPrefix \o LongQuestion \o ManyQuestionsSuffix

\* st.chat_input values
ChatQuestions == {ChatQuestionQuoted}

\* texts the Completion Service returns for a chat-summary prompt
Summaries == {SummaryQuoted}

\* texts the Completion Service returns for the main prompt
CompletionOutputs == {SpecExample, NoQuestionsOutput, ManyQuestionsOutput}

\* response.json() of the Retrieval Service
NoResults == [results |-> <<>>]
ThreeResults ==
    [results |-> <<[chunk |-> ChunkPlain, relative_path |-> "a.pdf", category |-> "Cardiology"],
                   [chunk |-> ChunkIssues, relative_path |-> "a.pdf", category |-> "Cardiology"],
                   [chunk |-> ChunkPlain, relative_path |-> "b.pdf", category |-> "Cardiology"]>>]
SearchResults == {NoResults, ThreeResults}

\* the documents whose presigned-URL query raises
FailingPathSets == {{}, {"b.pdf"}}

\* df_url_link._get_value(0, 'URL_LINK') for a path
URL_LINK(path) == <<"presigned", path>>

\* the result of one upstream call: it returns val, or raises
Returns(v) == [ok |-> TRUE, val |-> v]
Raises(v) == [ok |-> FALSE, val |-> v]
SummaryOutcomes == {Returns(v) : v \in Summaries} \cup {Raises(<<>>)}
CompletionOutcomes == {Returns(v) : v \in CompletionOutputs} \cup {Raises(<<>>)}
SearchOutcomes == {Returns(v) : v \in SearchResults} \cup {Raises(NoResults)}

\* the settings of a session: the defaults of ChatState.initialize, and other
\* values of the window size, the history switch and the category
Settings(use, window, category) ==
    [use_chat_history |-> use, sliding_window |-> window, category_value |-> category,
     num_chunks |-> NUM_CHUNKS, model_name |-> MODEL]
DefaultSettings == Settings(TRUE, SLIDING_WINDOW, DEFAULT_CATEGORY)
SettingsSet ==
    {DefaultSettings, Settings(TRUE, 0, DEFAULT_CATEGORY), Settings(TRUE, -1, DEFAULT_CATEGORY),
     Settings(TRUE, 1, "Cardiology"),
     Settings(FALSE, SLIDING_WINDOW, "Cardiology")}

\* the documents of the stage
Paths == {"a.pdf", "b.pdf"}

\* the orders in which the process can iterate a set of paths: the order of a
\* Python set of strings follows the hash seed of the process
HashOrders ==
    {f \in [1..Cardinality(Paths) -> Paths] : \A i, j \in DOMAIN f : f[i] = f[j] => i = j}

\* a variant that visits every path twice
IterateTwice(paths, hash_order) ==
    SelectSeq(hash_order \o hash_order, LAMBDA p : p \in paths)

\* list(paths) under the iteration order hash_order
Iterate(paths, hash_order) == SelectSeq(hash_order, LAMBDA p : p \in paths)

(***************************************************************************)
(* SnowflakeService                                                        *)
(***************************************************************************)
\* a variant that sends the equality filter for every category
AlwaysFilter(query, category, num_chunks, outcome) ==
    [svc |-> "search",
     req |-> [query |-> query, columns |-> SEARCH_COLUMNS,
              filter |-> <<[op |-> "@eq", field |-> "category", value |-> category]>>,
              limit |-> num_chunks],
     ok |-> outcome.ok]

\* the request search_similar_chunks sends, and whether the service answered
search_similar_chunks(query, category, num_chunks, outcome) ==
    [svc |-> "search",
     req |-> [query |-> query, columns |-> SEARCH_COLUMNS,
              filter |-> IF category = "ALL" THEN <<>>
                         ELSE <<[op |-> "@eq", field |-> "category", value |-> category]>>,
              limit |-> num_chunks],
     ok |-> outcome.ok]

\* the request complete_with_llm sends, and whether the service answered
complete_with_llm(model_name, prompt, outcome) ==
    [svc |-> "complete", req |-> [model |-> model_name, prompt |-> prompt], ok |-> outcome.ok]

\* get_document_url catches the failure and returns "#"
get_document_url(path, failing) ==
    IF path \in failing THEN <<"#">> ELSE URL_LINK(path)

(***************************************************************************)
(* PromptBuilder: the values a prompt embeds in its fixed template         *)
(***************************************************************************)
create_chat_summary_prompt(chat_history, question) ==
    [template |-> "chat_summary", chat_history |-> chat_history, question |-> question]

create_main_prompt(question, chat_history, prompt_context) ==
    [template |-> "main", chat_history |-> chat_history, prompt_context |-> prompt_context,
     question |-> question]

(***************************************************************************)
(* ChatApp: one turn                                                       *)
(***************************************************************************)
UserMessage(question) == [role |-> "User", content |-> question]

\* a variant that stores the text as it is rendered
StoreCleaned(response) ==
    [role |-> "assistant", content |-> clean_assistant_response(response)]

AssistantMessage(response) == [role |-> "assistant", content |-> response]

\* a variant that hands over the whole transcript
FullTranscript(msgs, window_size) == msgs

\* messages[max(0, len(messages) - window_size):len(messages)]
_get_chat_history(msgs, window_size) ==
    LET start_index == IF Len(msgs) - window_size > 0 THEN Len(msgs) - window_size ELSE 0
    IN  Slice(msgs, start_index + 1, Len(msgs))

\* [call, raised, summary]
_summarize_conversation(chat_history, question, model_name, outcome) ==
    [call |-> complete_with_llm(model_name,
                  create_chat_summary_prompt(chat_history, question), outcome),
     raised |-> ~outcome.ok,
     summary |-> StripQuotes(outcome.val)]

\* a variant of _create_prompt that searches with the question first and
\* reformulates afterwards
SearchBeforeSummary(question, msgs, cfg, e) ==
    LET use_history == cfg.use_chat_history /\ Len(msgs) > 0
        chat_history == IF use_history THEN _get_chat_history(msgs, cfg.sliding_window)
                        ELSE <<>>
        summarized == use_history /\ chat_history # <<>>
        S == _summarize_conversation(chat_history, question, cfg.model_name, e.summary)
        search == search_similar_chunks(question, cfg.category_value, cfg.num_chunks,
                      e.search)
        raised == ~e.search.ok \/ (summarized /\ S.raised)
    IN  [raised |-> raised,
         calls |-> IF summarized /\ e.search.ok THEN <<search, S.call>> ELSE <<search>>,
         chat_history |-> chat_history,
         json_data |-> IF raised THEN NoResults ELSE e.search.val,
         relative_paths |-> IF raised THEN {}
                            ELSE {e.search.val.results[i].relative_path :
                                      i \in 1..Len(e.search.val.results)},
         prompt |-> create_main_prompt(question, chat_history,
                        IF raised THEN NoResults ELSE e.search.val)]

\* a variant of _create_prompt that reformulates whenever history use is on,
\* also over an empty window
ReformulateAlways(question, msgs, cfg, e) ==
    LET use_history == cfg.use_chat_history /\ Len(msgs) > 0
        chat_history == IF use_history THEN _get_chat_history(msgs, cfg.sliding_window)
                        ELSE <<>>
        S == _summarize_conversation(chat_history, question, cfg.model_name, e.summary)
        search == search_similar_chunks(IF use_history THEN S.summary ELSE question,
                      cfg.category_value, cfg.num_chunks, e.search)
        raised == (use_history /\ S.raised) \/ ~e.search.ok
    IN  [raised |-> raised,
         calls |-> IF ~use_history THEN <<search>>
                   ELSE IF S.raised THEN <<S.call>> ELSE <<S.call, search>>,
         chat_history |-> chat_history,
         json_data |-> IF raised THEN NoResults ELSE e.search.val,
         relative_paths |-> IF raised THEN {}
                            ELSE {e.search.val.results[i].relative_path :
                                      i \in 1..Len(e.search.val.results)},
         prompt |-> create_main_prompt(question, chat_history,
                        IF raised THEN NoResults ELSE e.search.val)]

\* the turn's results before the main completion; e holds the services' outcomes
_create_prompt(question, msgs, cfg, e) ==
    LET use_history == cfg.use_chat_history /\ Len(msgs) > 0
        chat_history == IF use_history THEN _get_chat_history(msgs, cfg.sliding_window)
                        ELSE <<>>
        summarized == use_history /\ chat_history # <<>>
        S == _summarize_conversation(chat_history, question, cfg.model_name, e.summary)
        query == IF summarized THEN S.summary ELSE question
        search == search_similar_chunks(query, cfg.category_value, cfg.num_chunks, e.search)
        json_data == e.search.val
        before == IF summarized THEN <<S.call>> ELSE <<>>
        raised == (summarized /\ S.raised) \/ ~e.search.ok
    IN  [raised |-> raised,
         calls |-> IF summarized /\ S.raised THEN before ELSE Append(before, search),
         chat_history |-> chat_history,
         json_data |-> IF raised THEN NoResults ELSE json_data,
         relative_paths |-> IF raised THEN {}
                            ELSE {json_data.results[i].relative_path :
                                      i \in 1..Len(json_data.results)},
         prompt |-> create_main_prompt(question, chat_history,
                        IF raised THEN NoResults ELSE json_data)]

\* a variant that assigns the extracted list even when it is empty
ReplaceSuggestedQuestions(suggested_questions, new_questions) == new_questions

\* if new_questions: st.session_state.suggested_questions = new_questions
UpdateSuggestedQuestions(suggested_questions, new_questions) ==
    IF new_questions # <<>> THEN new_questions ELSE suggested_questions

\* lines 552-554: process video links and sanitize the response
PostProcess(raw) == StripQuotes(process_video_links(raw))

\* PostProcess of every completion output, computed once
PostProcessed == [raw \in CompletionOutputs |-> PostProcess(raw)]

\* line 557 for every completion output and search response, computed once
ExtractedQuestions ==
    [raw \in CompletionOutputs |->
        [json_data \in SearchResults |->
            extract_related_questions(PostProcessed[raw], json_data)]]

\* the turn's results; raised when an upstream call raised
_process_user_input(raw_question, msgs, suggested_questions, cfg, e) ==
    With(_create_prompt(StripQuotes(raw_question), msgs, cfg, e), LAMBDA P :
    With(P.raised \/ ~e.completion.ok, LAMBDA raised :
    With(IF raised THEN <<>> ELSE ExtractedQuestions[e.completion.val][P.json_data],
         LAMBDA new_questions :
        [raised |-> raised,
         calls |-> IF P.raised THEN P.calls
                   ELSE Append(P.calls,
                            complete_with_llm(cfg.model_name, P.prompt, e.completion)),
         chat_history |-> P.chat_history,
         json_data |-> P.json_data,
         raw |-> IF raised THEN <<>> ELSE e.completion.val,
         response |-> IF raised THEN <<>> ELSE PostProcessed[e.completion.val],
         relative_paths |-> IF raised THEN {} ELSE P.relative_paths,
         new_questions |-> new_questions,
         suggested_questions |-> IF raised THEN suggested_questions
                                 ELSE UpdateSuggestedQuestions(suggested_questions,
                                          new_questions)])))

\* a variant that gives up at the first document whose lookup fails
LookupUntilFailure(relative_paths, related_documents, hash_order, failing) ==
    LET order == Iterate(relative_paths, hash_order)
        bad == {i \in 1..Len(order) : order[i] \in failing}
        n == IF bad = {} THEN Len(order) ELSE Min(bad)
    IN  [documents |-> IF bad = {} /\ relative_paths # {}
                       THEN [i \in 1..n |-> <<order[i], URL_LINK(order[i])>>]
                       ELSE related_documents,
         calls |-> [i \in 1..n |->
                       [svc |-> "url", req |-> order[i], ok |-> order[i] \notin failing]]]

\* a variant of _update_related_documents that stores the list of every turn,
\* the empty one included
StoreEveryCitationSet(relative_paths, related_documents, hash_order, failing) ==
    LET order == Iterate(relative_paths, hash_order)
    IN  [documents |-> [i \in 1..Len(order) |->
                           <<order[i], get_document_url(order[i], failing)>>],
         calls |-> [i \in 1..Len(order) |->
                       [svc |-> "url", req |-> order[i], ok |-> order[i] \notin failing]]]

\* [documents, calls]
_update_related_documents(relative_paths, related_documents, hash_order, failing) ==
    LET order == Iterate(relative_paths, hash_order)
    IN  IF relative_paths = {} THEN [documents |-> related_documents, calls |-> <<>>]
        ELSE [documents |-> [i \in 1..Len(order) |->
                                <<order[i], get_document_url(order[i], failing)>>],
              calls |-> [i \in 1..Len(order) |->
                            [svc |-> "url", req |-> order[i],
                             ok |-> order[i] \notin failing]]]

\* a variant of _process_question that stores an assistant message although the
\* turn raised
ProcessQuestionWithFallback(question, sess, cfg, e) ==
    With(Append(sess.messages, UserMessage(question)), LAMBDA msgs :
    With(_process_user_input(question, msgs, sess.suggested_questions, cfg, e), LAMBDA T :
    With(_update_related_documents(T.relative_paths, sess.related_documents,
             cfg.hash_order, e.failing), LAMBDA D :
        [raised |-> T.raised,
         turn |-> T,
         calls |-> IF T.raised THEN T.calls ELSE T.calls \o D.calls,
         messages |-> Append(msgs, AssistantMessage(T.response)),
         suggested_questions |-> T.suggested_questions,
         related_documents |-> IF T.raised THEN sess.related_documents
                               ELSE D.documents])))

\* lines 527-539: a question from a button click
_process_question(question, sess, cfg, e) ==
    With(Append(sess.messages, UserMessage(question)), LAMBDA msgs :
    With(_process_user_input(question, msgs, sess.suggested_questions, cfg, e), LAMBDA T :
    With(_update_related_documents(T.relative_paths, sess.related_documents,
             cfg.hash_order, e.failing), LAMBDA D :
        [raised |-> T.raised,
         turn |-> T,
         calls |-> IF T.raised THEN T.calls ELSE T.calls \o D.calls,
         messages |-> IF T.raised THEN msgs
                      ELSE Append(msgs, AssistantMessage(T.response)),
         suggested_questions |-> T.suggested_questions,
         related_documents |-> IF T.raised THEN sess.related_documents
                               ELSE D.documents])))

\* a variant of the chat-input turn that takes the user message back when the
\* turn raises
RollBackChatInput(question, sess, cfg, e) ==
    With(Append(sess.messages, UserMessage(question)), LAMBDA msgs :
    With(_process_user_input(question, msgs, sess.suggested_questions, cfg, e), LAMBDA T :
    With(_update_related_documents(T.relative_paths, sess.related_documents,
             cfg.hash_order, e.failing), LAMBDA D :
        [raised |-> T.raised,
         turn |-> T,
         calls |-> IF T.raised THEN T.calls ELSE T.calls \o D.calls,
         related_documents |-> IF T.raised THEN sess.related_documents
                               ELSE D.documents,
         suggested_questions |-> T.suggested_questions,
         messages |-> IF T.raised THEN sess.messages
                      ELSE Append(msgs, AssistantMessage(T.response))])))

\* lines 503-523: a question from the chat input
_process_chat_input(question, sess, cfg, e) ==
    With(Append(sess.messages, UserMessage(question)), LAMBDA msgs :
    With(_process_user_input(question, msgs, sess.suggested_questions, cfg, e), LAMBDA T :
    With(_update_related_documents(T.relative_paths, sess.related_documents,
             cfg.hash_order, e.failing), LAMBDA D :
        [raised |-> T.raised,
         turn |-> T,
         calls |-> IF T.raised THEN T.calls ELSE T.calls \o D.calls,
         related_documents |-> IF T.raised THEN sess.related_documents
                               ELSE D.documents,
         suggested_questions |-> T.suggested_questions,
         messages |-> IF T.raised THEN msgs
                      ELSE Append(msgs, AssistantMessage(T.response))])))

\* the results of a script run in which no question was processed
NoTurn ==
    [raised |-> FALSE, calls |-> <<>>, chat_history |-> <<>>, json_data |-> NoResults,
     raw |-> <<>>, response |-> <<>>, relative_paths |-> {}, new_questions |-> <<>>,
     suggested_questions |-> <<>>]

\* lines 491-525; chat_input is <<>> when st.chat_input returns None. A flagged
\* question is processed first, and st.experimental_rerun() then ends the run
\* before the chat input is read.
_handle_user_input(sess, chat_input, cfg, e) ==
    IF sess.question_asked /\ sess.current_question # <<>>
    THEN With(_process_question(sess.current_question, sess, cfg, e), LAMBDA Q :
             [processed |-> <<sess.current_question>>,
              raised |-> Q.raised, turn |-> Q.turn, calls |-> Q.calls,
              messages |-> Q.messages,
              suggested_questions |-> Q.suggested_questions,
              related_documents |-> Q.related_documents,
              question_asked |-> IF Q.raised THEN sess.question_asked ELSE FALSE,
              current_question |-> IF Q.raised THEN sess.current_question ELSE <<>>])
    ELSE IF chat_input # <<>>
    THEN With(_process_chat_input(chat_input, sess, cfg, e), LAMBDA Q :
             [processed |-> <<chat_input>>,
              raised |-> Q.raised, turn |-> Q.turn, calls |-> Q.calls,
              messages |-> Q.messages,
              suggested_questions |-> Q.suggested_questions,
              related_documents |-> Q.related_documents,
              question_asked |-> sess.question_asked,
              current_question |-> sess.current_question])
    ELSE [processed |-> <<>>,
          raised |-> FALSE, turn |-> NoTurn, calls |-> <<>>,
          messages |-> sess.messages,
          suggested_questions |-> sess.suggested_questions,
          related_documents |-> sess.related_documents,
          question_asked |-> sess.question_asked,
          current_question |-> sess.current_question]

\* what the services do during one script run
Environment ==
    [summary : SummaryOutcomes, search : SearchOutcomes, completion : CompletionOutcomes,
     failing : FailingPathSets]

(***************************************************************************)
(* The Analyst app: Frontend.py                                            *)
(***************************************************************************)
\* Python's None; also what an absent text reads as
None == <<>>

GreetingQuestion == <<"What can I ask?">>
AnalystQuestions == {<<"Total billing by hospital?">>}
AnalystAnswer == <<"This is our interpretation of your question.">>
AnalystSuggestions == <<(<<"Which doctors bill the most?">>), (<<"Billing by month?">>)>>
AnalystWarning == <<"The semantic model has no verified queries.">>

\* the content items of a message that the program tells apart (lines 155-165)
TextItem(text) == [type |-> "text", text |-> text, suggestions |-> <<>>]
SuggestionsItem(suggestions) ==
    [type |-> "suggestions", text |-> None, suggestions |-> suggestions]

\* the parsed body of an API response; keys are the keys the JSON object has
Parsed(keys, content, request_id, error_code, warnings) ==
    [keys |-> keys, message |-> [content |-> content], request_id |-> request_id,
     error_code |-> error_code, warnings |-> warnings]

\* what _snowflake.send_snow_api_request and json.loads can give for one request:
\* two successes either side of nothing, an error at the first failing status,
\* and an exception
ReplyText ==
    [raises |-> FALSE, status |-> 200,
     content |-> Parsed({"message", "request_id"}, <<TextItem(AnalystAnswer)>>,
                        <<"req-1">>, None, <<>>)]
ReplySuggestions ==
    [raises |-> FALSE, status |-> 399,
     content |-> Parsed({"message", "request_id", "warnings"},
                        <<TextItem(AnalystAnswer), SuggestionsItem(AnalystSuggestions)>>,
                        <<"req-2">>, None, <<[message |-> AnalystWarning]>>)]
ReplyError ==
    [raises |-> FALSE, status |-> 400,
     content |-> Parsed({"message", "request_id", "error_code"}, <<>>, <<"req-3">>,
                        <<"390142">>, <<>>)]
ReplyRaises ==
    [raises |-> TRUE, status |-> 0, content |-> Parsed({}, <<>>, None, None, <<>>)]
AnalystReplies == {ReplyText, ReplySuggestions, ReplyError, ReplyRaises}

\* the f-string of lines 133-141
ErrorMessage(status, parsed) ==
    <<"Analyst API error", "Status:", ToString(status), "Request ID:">>
        \o parsed.request_id \o <<"Code:">> \o parsed.error_code \o <<"Message:">>

\* the widget values a script run starts from: the chat input (text) and the
\* suggestion button that reads as clicked (idx, item, s_idx), if any. A request
\* to run the script that arrives while another one waits is merged with it, so
\* one run can see both a typed question and a clicked button.
NoEvent == [kind |-> "none", text |-> None, idx |-> 0, item |-> 0, s_idx |-> 0]
ClearEvent == [NoEvent EXCEPT !.kind = "clear"]
ChatEvent(text) == [NoEvent EXCEPT !.kind = "chat", !.text = text]
SuggestionEvent(idx, item, s_idx) ==
    [NoEvent EXCEPT !.kind = "suggestion", !.idx = idx, !.item = item, !.s_idx = s_idx]
ChatAndSuggestionEvent(text, idx, item, s_idx) ==
    [SuggestionEvent(idx, item, s_idx) EXCEPT !.kind = "chat+suggestion", !.text = text]

\* st.session_state before the first script run; an absent
\* fire_API_error_notify reads as false (line 75)
BlankSession ==
    [messages |-> <<>>, active_suggestion |-> None, warnings |-> <<>>,
     form_submitted |-> <<>>, fire_API_error_notify |-> FALSE]

reset_session_state(s) ==
    [s EXCEPT !.messages = <<>>, !.active_suggestion = None, !.warnings = <<>>,
              !.form_submitted = <<>>]

\* what a script run did: the session it left, whether it ended in st.rerun() or
\* in an exception, the prompts given to process_user_input, the request bodies
\* sent, and whether the error toast was shown
Ran(s, rerun, raised, prompts, requests, toast) ==
    [session |-> s, rerun |-> rerun, raised |-> raised, prompts |-> prompts,
     requests |-> requests, toast |-> toast]

get_analyst_response(messages, reply) ==
    [raised |-> reply.raises,
     request |-> messages,
     response |-> reply.content,
     error_msg |-> IF reply.status < 400 THEN None
                   ELSE ErrorMessage(reply.status, reply.content)]

\* a variant of process_user_input that puts the new user message first
PrependUserMessage(messages, message) == <<message>> \o messages

\* st.session_state.messages.append(new_user_message), line 86
AppendUserMessage(messages, message) == Append(messages, message)

process_user_input(s, prompt, reply) ==
    With(AppendUserMessage(s.messages,
             [role |-> "user", content |-> <<TextItem(prompt)>>, request_id |-> None]),
         LAMBDA sent :
    With(get_analyst_response(sent, reply), LAMBDA got :
        IF got.raised
        THEN Ran([s EXCEPT !.warnings = <<>>, !.messages = sent],
                 FALSE, TRUE, <<prompt>>, <<sent>>, FALSE)
        ELSE Ran([s EXCEPT
                    !.warnings = IF "warnings" \in got.response.keys
                                 THEN got.response.warnings ELSE <<>>,
                    !.fire_API_error_notify = IF got.error_msg = None THEN @ ELSE TRUE,
                    !.messages =
                        Append(sent,
                            [role |-> "analyst",
                             content |-> IF got.error_msg = None
                                         THEN got.response.message.content
                                         ELSE <<TextItem(got.error_msg)>>,
                             request_id |-> got.response.request_id])],
                 TRUE, FALSE, <<prompt>>, <<sent>>, FALSE)))

\* the Clear Chat History button, lines 62-63
show_header_and_sidebar(s, event) ==
    IF event.kind = "clear" THEN reset_session_state(s) ELSE s

\* a clicked suggestion button, lines 159-163
display_conversation(s, event) ==
    IF event.idx # 0
    THEN [s EXCEPT !.active_suggestion =
              s.messages[event.idx].content[event.item].suggestions[event.s_idx]]
    ELSE s

\* a variant of handle_user_inputs that submits the suggestion and leaves
\* active_suggestion as it is
SubmitWithoutClearing(s, event, reply) ==
    IF event.text # None THEN process_user_input(s, event.text, reply)
    ELSE IF s.active_suggestion # None
    THEN process_user_input(s, s.active_suggestion, reply)
    ELSE Ran(s, FALSE, FALSE, <<>>, <<>>, FALSE)

handle_user_inputs(s, event, reply) ==
    IF event.text # None THEN process_user_input(s, event.text, reply)
    ELSE IF s.active_suggestion # None
    THEN process_user_input([s EXCEPT !.active_suggestion = None],
                            s.active_suggestion, reply)
    ELSE Ran(s, FALSE, FALSE, <<>>, <<>>, FALSE)

\* a variant of handle_error_notifications that shows the toast and leaves the flag
NotifyWithoutClearing(s) ==
    Ran(s, FALSE, FALSE, <<>>, <<>>, s.fire_API_error_notify)

handle_error_notifications(s) ==
    Ran([s EXCEPT !.fire_API_error_notify = FALSE], FALSE, FALSE, <<>>, <<>>,
        s.fire_API_error_notify)

\* one script run; process_user_input ends the run, by st.rerun() or by raising
main(s, event, reply) ==
    With(show_header_and_sidebar(s, event), LAMBDA s1 :
        IF Len(s1.messages) = 0
        THEN process_user_input(s1, GreetingQuestion, reply)
        ELSE With(handle_user_inputs(display_conversation(s1, event), event, reply),
                  LAMBDA r : IF r.prompts # <<>> THEN r
                             ELSE handle_error_notifications(r.session)))

\* the last script run of the Analyst app, before any
NoAnalystRun ==
    [event |-> NoEvent, rerun |-> FALSE, raised |-> FALSE, prompts |-> <<>>,
     requests |-> <<>>, toast |-> FALSE]

\* the Analyst app not started
AnalystOff == [stage |-> "off", session |-> BlankSession, last |-> NoAnalystRun]

(***************************************************************************)
(* State: st.session_state of the Search app, and a record of the last     *)
(* script run                                                              *)
(***************************************************************************)
VARIABLES
    messages,             \* the transcript
    suggested_questions,
    question_asked,
    current_question,
    related_documents,
    model_name,
    category_value,
    use_chat_history,
    num_chunks,
    sliding_window,
    hash_order,           \* the order in which the process iterates sets of paths
    calls,                \* the upstream calls of the last script run, in order
    run,                  \* what the last script run was given and what it did
    tx_stage,             \* how far ResponseProcessor was applied to tx_response
    tx_response,          \* a completion output given to ResponseProcessor
    tx_context_data,      \* the search response given with it
    tx_linked,            \* process_video_links(tx_response)
    tx_relinked,          \* process_video_links(tx_linked)
    tx_cleaned,           \* clean_assistant_response(tx_response)
    tx_questions,         \* extract_related_questions(tx_response, tx_context_data)
    analyst               \* the session of the Analyst app (Frontend.py)

settingsVars == <<model_name, category_value, use_chat_history, num_chunks, sliding_window>>
sessionVars ==
    <<messages, suggested_questions, question_asked, current_question, related_documents>>
textVars ==
    <<tx_stage, tx_response, tx_context_data, tx_linked, tx_relinked, tx_cleaned,
      tx_questions>>
vars == <<sessionVars, settingsVars, hash_order, calls, run, textVars, analyst>>

Session ==
    [messages |-> messages, suggested_questions |-> suggested_questions,
     question_asked |-> question_asked, current_question |-> current_question,
     related_documents |-> related_documents]

Cfg ==
    [use_chat_history |-> use_chat_history, sliding_window |-> sliding_window,
     category_value |-> category_value, num_chunks |-> num_chunks,
     model_name |-> model_name, hash_order |-> hash_order]

\* the record of a script run: the widget that fired, the questions submitted in
\* it, the questions given to _process_user_input, and that turn's results
RunRecord(event, submitted, empty_at_start, H) ==
    [event |-> event, submitted |-> submitted, empty_at_start |-> empty_at_start,
     processed |-> H.processed, raised |-> H.raised,
     chat_history |-> H.turn.chat_history, json_data |-> H.turn.json_data,
     raw |-> H.turn.raw, response |-> H.turn.response,
     new_questions |-> H.turn.new_questions]

\* the record of a script run that processed no question
IdleRun(event) ==
    [event |-> event, submitted |-> <<>>, empty_at_start |-> TRUE, processed |-> <<>>,
     raised |-> FALSE, chat_history |-> <<>>, json_data |-> NoResults, raw |-> <<>>,
     response |-> <<>>, new_questions |-> <<>>]

\* ChatState.initialize on a fresh session
Init ==
    /\ messages = <<>>
    /\ suggested_questions = INITIAL_QUESTIONS
    /\ question_asked = FALSE
    /\ current_question = <<>>
    /\ related_documents = <<>>
    /\ \E cfg \in SettingsSet :
          /\ model_name = cfg.model_name
          /\ category_value = cfg.category_value
          /\ use_chat_history = cfg.use_chat_history
          /\ num_chunks = cfg.num_chunks
          /\ sliding_window = cfg.sliding_window
    /\ hash_order \in HashOrders
    /\ calls = <<>>
    /\ run = IdleRun("start")
    /\ tx_stage = "off"
    /\ tx_response = <<>>
    /\ tx_context_data = NoResults
    /\ tx_linked = <<>>
    /\ tx_relinked = <<>>
    /\ tx_cleaned = <<>>
    /\ tx_questions = <<>>
    /\ analyst = AnalystOff

\* one script run (ChatApp.run) after the widgets were evaluated
ScriptRun(event, sess, chat_input, submitted, e) ==
    \E H \in {_handle_user_input(sess, chat_input, Cfg, e)} :
        /\ H.processed # <<>> => Len(messages) + 2 <= MaxMsgs
        /\ messages' = H.messages
        /\ suggested_questions' = H.suggested_questions
        /\ related_documents' = H.related_documents
        /\ question_asked' = H.question_asked
        /\ current_question' = H.current_question
        /\ calls' = H.calls
        /\ run' = RunRecord(event, submitted, messages = <<>>, H)
        /\ UNCHANGED <<settingsVars, hash_order, textVars, analyst>>

\* a suggested-question button is clicked (lines 474-477, 481-489)
ClickSuggestedQuestion ==
    /\ messages = <<>>
    /\ \E i \in 1..Len(suggested_questions), e \in Environment :
          /\ i <= MaxButton
          /\ ScriptRun("button",
              [Session EXCEPT !.current_question = suggested_questions[i],
                              !.question_asked = TRUE],
              <<>>, <<suggested_questions[i]>>, e)

\* a question is typed into st.chat_input
SubmitChatInput ==
    \E question \in ChatQuestions, e \in Environment :
        ScriptRun("chat", Session, question, <<question>>, e)

\* the script runs again with no widget fired; with no question flagged such a
\* run changes nothing
Rerun ==
    /\ question_asked /\ current_question # <<>>
    /\ \E e \in Environment : ScriptRun("rerun", Session, <<>>, <<>>, e)

\* a variant of the Clear Conversation button that keeps the suggested questions
ClearTranscriptOnly ==
    /\ messages' = <<>>
    /\ question_asked' = FALSE
    /\ related_documents' = <<>>
    /\ calls' = <<>>
    /\ run' = IdleRun("clear")
    /\ UNCHANGED <<suggested_questions, current_question, settingsVars, hash_order,
                   textVars, analyst>>

\* a variant of the Clear Conversation button that empties the suggested questions
ClearSuggestedQuestions ==
    /\ messages' = <<>>
    /\ suggested_questions' = <<>>
    /\ question_asked' = FALSE
    /\ related_documents' = <<>>
    /\ calls' = <<>>
    /\ run' = IdleRun("clear")
    /\ UNCHANGED <<current_question, settingsVars, hash_order, textVars, analyst>>

\* the Clear Conversation button (lines 455-458, 329-335)
ClickClearConversation ==
    /\ messages' = <<>>
    /\ suggested_questions' = INITIAL_QUESTIONS
    /\ question_asked' = FALSE
    /\ related_documents' = <<>>
    /\ calls' = <<>>
    /\ run' = IdleRun("clear")
    /\ UNCHANGED <<current_question, settingsVars, hash_order, textVars, analyst>>

Next ==
    \/ ClickSuggestedQuestion
    \/ SubmitChatInput
    \/ Rerun
    \/ ClickClearConversation

Spec == Init /\ [][Next]_vars

(***************************************************************************)
(* ResponseProcessor on its own: each static method applied to a response  *)
(* put together from fragments, with the session left as constructed       *)
(***************************************************************************)
Fragments ==
    {FragAnswer, FragRelated, FragThird, FragInternalVideo, FragYoutubeVideo,
     FragOtherVideo, FragBothVideo, FragGeneral, FragQuoted}

RECURSIVE Responses(_)
\* the texts made of at most n fragments
Responses(n) ==
    IF n = 0 THEN {<<>>}
    ELSE Responses(n - 1) \cup {r \o f : r \in Responses(n - 1), f \in Fragments}

InitText ==
    /\ messages = <<>>
    /\ suggested_questions = INITIAL_QUESTIONS
    /\ question_asked = FALSE
    /\ current_question = <<>>
    /\ related_documents = <<>>
    /\ model_name = DefaultSettings.model_name
    /\ category_value = DefaultSettings.category_value
    /\ use_chat_history = DefaultSettings.use_chat_history
    /\ num_chunks = DefaultSettings.num_chunks
    /\ sliding_window = DefaultSettings.sliding_window
    /\ hash_order = CHOOSE order \in HashOrders : TRUE
    /\ calls = <<>>
    /\ run = IdleRun("start")
    /\ tx_stage = "response"
    /\ tx_response \in Responses(MaxFrags)
    /\ tx_context_data \in SearchResults
    /\ tx_linked = <<>>
    /\ tx_relinked = <<>>
    /\ tx_cleaned = <<>>
    /\ tx_questions = <<>>
    /\ analyst = AnalystOff

\* ResponseProcessor.process_video_links(response)
LinkVideos ==
    /\ tx_stage = "response"
    /\ tx_linked' = process_video_links(tx_response)
    /\ tx_stage' = "linked"
    /\ UNCHANGED <<sessionVars, settingsVars, hash_order, calls, run, analyst, tx_response,
                   tx_context_data, tx_relinked, tx_cleaned, tx_questions>>

\* ResponseProcessor.process_video_links on its own output
LinkVideosAgain ==
    /\ tx_stage = "linked"
    /\ tx_relinked' = process_video_links(tx_linked)
    /\ tx_stage' = "relinked"
    /\ UNCHANGED <<sessionVars, settingsVars, hash_order, calls, run, analyst, tx_response,
                   tx_context_data, tx_linked, tx_cleaned, tx_questions>>

\* ResponseProcessor.clean_assistant_response(response)
CleanResponse ==
    /\ tx_stage = "relinked"
    /\ tx_cleaned' = clean_assistant_response(tx_response)
    /\ tx_stage' = "cleaned"
    /\ UNCHANGED <<sessionVars, settingsVars, hash_order, calls, run, analyst, tx_response,
                   tx_context_data, tx_linked, tx_relinked, tx_questions>>

\* ResponseProcessor.extract_related_questions(response, context_data)
ExtractQuestions ==
    /\ tx_stage = "cleaned"
    /\ tx_questions' = extract_related_questions(tx_response, tx_context_data)
    /\ tx_stage' = "extracted"
    /\ UNCHANGED <<sessionVars, settingsVars, hash_order, calls, run, analyst, tx_response,
                   tx_context_data, tx_linked, tx_relinked, tx_cleaned>>

NextText ==
    \/ LinkVideos
    \/ LinkVideosAgain
    \/ CleanResponse
    \/ ExtractQuestions

SpecText == InitText /\ [][NextText]_vars

(***************************************************************************)
(* The Analyst app as a state machine. analyst.stage is "run" when a       *)
(* script run with no widget event is due (the first load, or st.rerun())  *)
(* and "idle" when the page waits for a widget.                            *)
(***************************************************************************)
InitAnalyst ==
    /\ messages = <<>>
    /\ suggested_questions = INITIAL_QUESTIONS
    /\ question_asked = FALSE
    /\ current_question = <<>>
    /\ related_documents = <<>>
    /\ model_name = DefaultSettings.model_name
    /\ category_value = DefaultSettings.category_value
    /\ use_chat_history = DefaultSettings.use_chat_history
    /\ num_chunks = DefaultSettings.num_chunks
    /\ sliding_window = DefaultSettings.sliding_window
    /\ hash_order = CHOOSE order \in HashOrders : TRUE
    /\ calls = <<>>
    /\ run = IdleRun("start")
    /\ tx_stage = "off"
    /\ tx_response = <<>>
    /\ tx_context_data = NoResults
    /\ tx_linked = <<>>
    /\ tx_relinked = <<>>
    /\ tx_cleaned = <<>>
    /\ tx_questions = <<>>
    /\ analyst = [stage |-> "run", session |-> reset_session_state(BlankSession),
                  last |-> NoAnalystRun]

AnalystScriptRun(event, reply) ==
    \E r \in {main(analyst.session, event, reply)} :
        /\ analyst' = [stage |-> IF r.rerun THEN "run" ELSE "idle",
                       session |-> r.session,
                       last |-> [event |-> event, rerun |-> r.rerun, raised |-> r.raised,
                                 prompts |-> r.prompts, requests |-> r.requests,
                                 toast |-> r.toast]]
        /\ UNCHANGED <<sessionVars, settingsVars, hash_order, calls, run, textVars>>

\* the first load of the page, and the run that st.rerun() starts
AnalystRerun ==
    /\ analyst.stage = "run"
    /\ \E reply \in AnalystReplies : AnalystScriptRun(NoEvent, reply)

\* a question is typed into st.chat_input
AnalystChatInput ==
    /\ analyst.stage = "idle"
    /\ Len(analyst.session.messages) + 2 <= MaxAnalystMsgs
    /\ \E text \in AnalystQuestions, reply \in AnalystReplies :
          AnalystScriptRun(ChatEvent(text), reply)

\* a suggestion button of a displayed message is clicked
AnalystClickSuggestion ==
    /\ analyst.stage = "idle"
    /\ Len(analyst.session.messages) + 2 <= MaxAnalystMsgs
    /\ \E idx \in DOMAIN analyst.session.messages, reply \in AnalystReplies :
          \E item \in DOMAIN analyst.session.messages[idx].content :
             \E s_idx \in DOMAIN analyst.session.messages[idx].content[item].suggestions :
                AnalystScriptRun(SuggestionEvent(idx, item, s_idx), reply)

\* a question is typed and a suggestion button is clicked before the script runs
AnalystChatInputAndClick ==
    /\ analyst.stage = "idle"
    /\ Len(analyst.session.messages) + 2 <= MaxAnalystMsgs
    /\ \E idx \in DOMAIN analyst.session.messages, reply \in AnalystReplies :
          \E item \in DOMAIN analyst.session.messages[idx].content :
             \E s_idx \in DOMAIN analyst.session.messages[idx].content[item].suggestions :
                \E text \in AnalystQuestions :
                   AnalystScriptRun(ChatAndSuggestionEvent(text, idx, item, s_idx), reply)

\* the Clear Chat History button
AnalystClearChat ==
    /\ analyst.stage = "idle"
    /\ \E reply \in AnalystReplies : AnalystScriptRun(ClearEvent, reply)

NextAnalyst ==
    \/ AnalystRerun
    \/ AnalystChatInput
    \/ AnalystClickSuggestion
    \/ AnalystChatInputAndClick
    \/ AnalystClearChat

SpecAnalyst == InitAnalyst /\ [][NextAnalyst]_vars

(***************************************************************************)
(* A session of either app                                                 *)
(***************************************************************************)
InitApps == Init \/ InitAnalyst

NextApps ==
    \/ analyst.stage = "off" /\ Next
    \/ NextAnalyst

SpecApps == InitApps /\ [][NextApps]_vars

(***************************************************************************)
(* Properties of a script run, read from the record of the last run        *)
(***************************************************************************)
\* the last run gave a question to _process_user_input
Processed == run.processed # <<>>

\* ... and the turn ran to its end
Completed == Processed /\ ~run.raised

\* st.session_state.messages when _create_prompt was entered: the User message
\* is the last one; a completed turn appended the assistant message after it
TranscriptAtCall ==
    IF run.raised THEN messages ELSE SubSeq(messages, 1, Len(messages) - 1)

IsSummaryCall(call) ==
    call.svc = "complete" /\ call.req.prompt.template = "chat_summary"

IsMainCall(call) ==
    call.svc = "complete" /\ call.req.prompt.template = "main"

IsSearchCall(call) == call.svc = "search"

\* a call to the Completion Service or the Retrieval Service that raised
IsFailure(call) == call.svc \in {"complete", "search"} /\ ~call.ok

\* C1: a turn submitted while the transcript is empty does not invoke the
\* reformulator, and its search query is the raw question verbatim.
C1_FirstTurnSearchesRawQuestion ==
    (Processed /\ run.empty_at_start) =>
        \A i \in DOMAIN calls :
            /\ ~IsSummaryCall(calls[i])
            /\ IsSearchCall(calls[i]) => calls[i].req.query = run.processed[1]

\* C2: process_video_links applied to its own output returns that output.
C2_LinkingIsIdempotent ==
    tx_stage \in {"relinked", "cleaned", "extracted"} => tx_relinked = tx_linked

AnswerText == <<"A", "n", "s", "w", "e", "r", ".">>
Q1Text == <<"Q", "1", "?">>
Q2Text == <<"Q", "2", "?">>

\* C3: for "Answer.\n\nRelated Questions:\n- Q1?\n- Q2?\n\n" with no retrieved
\* passages, clean_assistant_response returns "Answer." and
\* extract_related_questions returns ["Q1?", "Q2?"].
C3_SpecExampleResults ==
    (tx_stage = "extracted" /\ tx_response = SpecExample /\ tx_context_data = NoResults) =>
        /\ tx_cleaned = AnswerText
        /\ tx_questions = <<Q1Text, Q2Text>>

\* C4 as stated: after every completed turn the suggested-question list is the
\* list extracted from that turn's response, the empty list included.
C4_ReplacedAfterEveryTurn ==
    Completed => suggested_questions = run.new_questions

\* C4: a completed turn replaces the suggested-question list by the list extracted
\* from its response when that list is not empty, and leaves it as it was when the
\* list is empty; a turn that raised leaves it as it was.
C4_ReplacedWhenExtracted ==
    [][run'.processed # <<>> =>
          suggested_questions' =
              IF ~run'.raised /\ run'.new_questions # <<>>
              THEN run'.new_questions
              ELSE suggested_questions]_vars

\* a second turn extracted nothing and the list of the first turn is still there
C4_Witness ==
    /\ Completed
    /\ Len(messages) = 4
    /\ run.new_questions = <<>>
    /\ suggested_questions # INITIAL_QUESTIONS

\* no item names a video or has MaxQuestionLen characters or more
ItemsAllowed(questions) ==
    \A i \in DOMAIN questions :
        /\ ~Contains(Lower(questions[i]), VideoWord)
        /\ Len(questions[i]) < MaxQuestionLen

\* C5: extract_related_questions returns at most 4 items, none containing "video"
\* in any letter case and none of 100 characters or more; the session's
\* suggested-question list never has more than 4 items.
C5_ExtractionBounded ==
    /\ Len(run.new_questions) <= MaxQuestions
    /\ ItemsAllowed(run.new_questions)
    /\ Len(suggested_questions) <= MaxQuestions

\* the response with seven bullets gave a full list
C5_Witness ==
    /\ Completed
    /\ run.raw = ManyQuestionsOutput
    /\ Len(run.new_questions) = MaxQuestions
    /\ suggested_questions = run.new_questions

\* transcript[max(0, len(transcript) - W):]
Window(transcript, W) ==
    LET n == IF W <= 0 THEN 0 ELSE IF W >= Len(transcript) THEN Len(transcript) ELSE W
    IN  [i \in 1..n |-> transcript[Len(transcript) - n + i]]

\* C6: the chat history handed to the reformulator and embedded in the main prompt
\* is window(transcript, W), or empty when history use is off: empty for W <= 0,
\* the whole transcript for W >= len(transcript), and not the whole transcript
\* for 0 < W < len(transcript).
C6_HistoryIsWindow ==
    Processed =>
        /\ run.chat_history =
               IF use_chat_history THEN Window(TranscriptAtCall, sliding_window) ELSE <<>>
        /\ \A i \in DOMAIN calls :
               (IsSummaryCall(calls[i]) \/ IsMainCall(calls[i])) =>
                   calls[i].req.prompt.chat_history = run.chat_history
        /\ sliding_window <= 0 => run.chat_history = <<>>
        /\ (use_chat_history /\ sliding_window >= Len(TranscriptAtCall)) =>
               run.chat_history = TranscriptAtCall
        /\ (0 < sliding_window /\ sliding_window < Len(TranscriptAtCall)) =>
               run.chat_history # TranscriptAtCall

\* a turn whose transcript was longer than the window, reformulated
C6_Witness ==
    /\ Processed
    /\ use_chat_history
    /\ 0 < sliding_window /\ sliding_window < Len(TranscriptAtCall)
    /\ \E i \in DOMAIN calls : IsSummaryCall(calls[i])

\* C7: every script run gives _process_user_input exactly the questions submitted
\* in it: one call per chat submission or button click, and none without one.
C7_OncePerSubmission == run.processed = run.submitted

\* C8: when a call to the Completion Service or the Retrieval Service raises, it
\* is the last upstream call of the turn, no call of the turn is made twice, and
\* the turn ends with the User message: no assistant message, no response, no
\* new suggestions.
C8_FailurePropagates ==
    \A i \in DOMAIN calls :
        IsFailure(calls[i]) =>
            /\ i = Len(calls)
            /\ \A j, k \in DOMAIN calls : calls[j] = calls[k] => j = k
            /\ run.raised
            /\ run.response = <<>> /\ run.new_questions = <<>>
            /\ messages # <<>>
            /\ messages[Len(messages)] = UserMessage(run.processed[1])

\* the search raised after the reformulation had returned
C8_Witness ==
    /\ Len(calls) = 2
    /\ IsSummaryCall(calls[1]) /\ calls[1].ok
    /\ IsSearchCall(calls[2]) /\ ~calls[2].ok
    /\ run.raised

Quote == "'"

\* C9: the reformulated query passed to the search and every assistant response,
\* returned or stored in the transcript, hold no single quote.
C9_NoSingleQuotes ==
    /\ Quote \notin Range(run.response)
    /\ \A i \in DOMAIN messages :
           messages[i].role = "assistant" => Quote \notin Range(messages[i].content)
    /\ \A i \in DOMAIN calls :
           (i > 1 /\ IsSearchCall(calls[i]) /\ IsSummaryCall(calls[i - 1])) =>
               Quote \notin Range(calls[i].req.query)

\* a completion with a quote was stored, after a search with a reformulated query
C9_Witness ==
    /\ Completed
    /\ Quote \in Range(run.raw)
    /\ messages[Len(messages)].content = run.response
    /\ \E i \in DOMAIN calls :
           /\ i > 1 /\ IsSearchCall(calls[i]) /\ IsSummaryCall(calls[i - 1])
           /\ Len(calls[i].req.query) < Len(SummaryQuoted)

\* lines 553-554 for every completion output
Unstripped ==
    [raw \in CompletionOutputs |-> RemoveChar(process_video_links(raw), Quote)]

\* what the rendering shows of it
Rendered == [raw \in CompletionOutputs |-> clean_assistant_response(Unstripped[raw])]

\* the questions in the unstripped response
UnstrippedQuestions ==
    [raw \in CompletionOutputs |->
        [json_data \in SearchResults |->
            extract_related_questions(Unstripped[raw], json_data)]]

\* C10: the assistant message stored in the transcript is the response without
\* section stripping, every stored assistant message stays so, and the
\* suggested questions are extracted from the unstripped response.
C10_StoredUnstripped ==
    /\ Completed =>
           /\ messages[Len(messages)] =
                  [role |-> "assistant", content |-> Unstripped[run.raw]]
           /\ run.new_questions = UnstrippedQuestions[run.raw][run.json_data]
    /\ \A i \in DOMAIN messages :
           messages[i].role = "assistant" =>
               \E raw \in CompletionOutputs : messages[i].content = Unstripped[raw]

\* a response whose rendering drops a section was stored, and gave suggestions
C10_Witness ==
    /\ Completed
    /\ Rendered[run.raw] # Unstripped[run.raw]
    /\ messages[Len(messages)].content = Unstripped[run.raw]
    /\ run.new_questions # <<>>

\* C11: Clear Conversation leaves the transcript empty, the suggested-question
\* list equal to the four initial questions and the related-documents list
\* empty, and does not change model, category, window size or chunk count.
C11_ClearResets ==
    [][run'.event = "clear" =>
          /\ messages' = <<>>
          /\ suggested_questions' = INITIAL_QUESTIONS
          /\ related_documents' = <<>>
          /\ UNCHANGED settingsVars]_vars

\* cleared after a button-click turn that raised: its question is still held
C11_Witness ==
    /\ run.event = "clear"
    /\ current_question # <<>>
    /\ messages = <<>>
    /\ suggested_questions = INITIAL_QUESTIONS

IsLookup(call) == call.svc = "url"

\* C12: a failed URL lookup is recorded for its document only and the turn goes
\* on: the response is the one the completion gave, the assistant message is
\* appended, and every document of the search results, the failed one with "#",
\* is in the related-documents list.
C12_LookupFailureContained ==
    (\E i \in DOMAIN calls : IsLookup(calls[i]) /\ ~calls[i].ok) =>
        /\ Completed
        /\ run.response = Unstripped[run.raw]
        /\ messages[Len(messages)] = [role |-> "assistant", content |-> run.response]
        /\ {calls[j].req : j \in {k \in DOMAIN calls : IsLookup(calls[k])}} =
               {run.json_data.results[k].relative_path :
                    k \in DOMAIN run.json_data.results}
        /\ \A j \in DOMAIN calls :
               IsLookup(calls[j]) =>
                   \E k \in DOMAIN related_documents :
                       related_documents[k] =
                           <<calls[j].req,
                             IF calls[j].ok THEN URL_LINK(calls[j].req) ELSE <<"#">>>>

\* the first lookup failed and the lookup after it was still made
C12_Witness ==
    /\ Completed
    /\ \E i, j \in DOMAIN calls :
           /\ i < j
           /\ IsLookup(calls[i]) /\ ~calls[i].ok
           /\ IsLookup(calls[j]) /\ calls[j].ok
    /\ Len(related_documents) = 2

\* C13: in a turn the reformulation, when it runs, has returned before the search
\* is called and the search uses its result; the search has returned before the
\* main completion is called and the main prompt holds its result; and
\* suggestions are extracted only after the main completion has returned.
C13_StepsInOrder ==
    /\ \A i, j \in DOMAIN calls :
           /\ (IsSummaryCall(calls[i]) /\ IsSearchCall(calls[j])) =>
                  /\ i < j /\ calls[i].ok
                  /\ \E s \in Summaries : calls[j].req.query = RemoveChar(s, Quote)
           /\ (IsSearchCall(calls[i]) /\ IsMainCall(calls[j])) =>
                  /\ i < j /\ calls[i].ok
                  /\ calls[j].req.prompt.prompt_context = run.json_data
           /\ (IsSummaryCall(calls[i]) /\ IsMainCall(calls[j])) => i < j
           /\ (IsMainCall(calls[i]) /\ IsLookup(calls[j])) => i < j /\ calls[i].ok
    /\ \A i \in DOMAIN calls : IsMainCall(calls[i]) => \E j \in DOMAIN calls : IsSearchCall(calls[j])
    /\ run.new_questions # <<>> =>
           \E i \in DOMAIN calls : IsMainCall(calls[i]) /\ calls[i].ok

\* a turn that reformulated, searched, completed and extracted suggestions
C13_Witness ==
    /\ Completed
    /\ Len(calls) >= 3
    /\ IsSummaryCall(calls[1]) /\ IsSearchCall(calls[2]) /\ IsMainCall(calls[3])
    /\ run.json_data # NoResults
    /\ run.new_questions # <<>>

\* the queries a turn can search with: the question or a summary, without quotes
QueriesOfRun ==
    {RemoveChar(run.processed[1], Quote)} \cup {RemoveChar(s, Quote) : s \in Summaries}

\* C14: search_similar_chunks sends no filter when the category is "ALL" and
\* otherwise exactly the equality filter on category; the query and the limit
\* go to the service as they were given.
C14_FilterByCategory ==
    \A i \in DOMAIN calls :
        IsSearchCall(calls[i]) =>
            /\ calls[i].req.filter =
                   IF category_value = "ALL" THEN <<>>
                   ELSE <<[op |-> "@eq", field |-> "category", value |-> category_value]>>
            /\ calls[i].req.limit = num_chunks
            /\ calls[i].req.query \in QueriesOfRun
            /\ calls[i].req.columns = SEARCH_COLUMNS

\* a search of the category Cardiology, sent with its filter
C14_Witness ==
    /\ category_value = "Cardiology"
    /\ \E i \in DOMAIN calls :
           /\ IsSearchCall(calls[i])
           /\ calls[i].req.filter =
                  <<[op |-> "@eq", field |-> "category", value |-> "Cardiology"]>>
           /\ calls[i].req.limit = NUM_CHUNKS

\* the relative_path values of the search results of the last run
ResultPaths ==
    {run.json_data.results[k].relative_path : k \in DOMAIN run.json_data.results}

\* the positions of the URL lookups among the calls of the last run
Lookups == {i \in DOMAIN calls : IsLookup(calls[i])}

\* C15: the documents a turn cites are the distinct relative_path values of its
\* search results, and the URL of each is looked up once, however many passages
\* come from it.
C15_CitationsAreDistinctPaths ==
    Completed =>
        /\ {calls[i].req : i \in Lookups} = ResultPaths
        /\ Cardinality(Lookups) = Cardinality(ResultPaths)
        /\ ResultPaths # {} =>
               /\ Len(related_documents) = Cardinality(ResultPaths)
               /\ {related_documents[k][1] : k \in DOMAIN related_documents} = ResultPaths

\* three passages of two documents gave two lookups and two related documents
C15_Witness ==
    /\ Completed
    /\ Len(run.json_data.results) = 3
    /\ ResultPaths = {"a.pdf", "b.pdf"}
    /\ Cardinality(Lookups) = 2
    /\ Len(related_documents) = 2

\* seq is the first part of longer
IsPrefix(seq, longer) ==
    Len(seq) <= Len(longer) /\ SubSeq(longer, 1, Len(seq)) = seq

\* C16: in both apps a step that is not a Clear Conversation / Clear Chat History
\* run leaves every stored message as it was and where it was: the transcript
\* before the step is a prefix of the transcript after it.
C16_TranscriptOnlyGrows ==
    [][/\ run'.event # "clear" => IsPrefix(messages, messages')
       /\ analyst'.last.event.kind # "clear" =>
              IsPrefix(analyst.session.messages, analyst'.session.messages)]_vars

\* a second turn of the Search app has been appended to the first
C16_Witness ==
    /\ analyst.stage = "off"
    /\ Completed /\ ~run.empty_at_start
    /\ Len(messages) = 4
    /\ messages[3] = UserMessage(run.processed[1])

\* the turn reformulates: history use is on and the window is not empty
HistoryUsed == use_chat_history /\ Window(TranscriptAtCall, sliding_window) # <<>>

SummaryCalls == {i \in DOMAIN calls : IsSummaryCall(calls[i])}
CompletionCalls == {i \in DOMAIN calls : calls[i].svc = "complete"}
SearchCalls == {i \in DOMAIN calls : IsSearchCall(calls[i])}

\* the reformulator is called once over a non-empty window and never otherwise;
\* without it the one search of the turn is given the question as _create_prompt
\* received it (line 544 has taken the single quotes out)
ReformulatesOverWindowOnly ==
    /\ (~use_chat_history \/ sliding_window <= 0) => ~HistoryUsed
    /\ HistoryUsed => Cardinality(SummaryCalls) = 1
    /\ ~HistoryUsed =>
           /\ SummaryCalls = {}
           /\ Cardinality(SearchCalls) = 1
           /\ \A i \in SearchCalls : calls[i].req.query = RemoveChar(run.processed[1], Quote)

RECURSIVE NewItems(_, _, _)
NewItems(kept, seq, k) ==
    IF k > Len(seq) THEN <<>>
    ELSE IF seq[k] \in Range(kept) THEN NewItems(kept, seq, k + 1)
    ELSE <<seq[k]>> \o NewItems(kept, seq, k + 1)

\* kept, then what a later pass discovers beyond it; the pass is not run once
\* kept has three items
Cascade(kept, pass) ==
    IF Len(kept) < 3 THEN kept \o NewItems(kept, pass, 1) ELSE kept

FirstFour(seq) == [i \in 1..(IF Len(seq) < 4 THEN Len(seq) ELSE 4) |-> seq[i]]

\* each pass on its own, starting from an empty list
SectionPass == SectionQuestions(<<>>, tx_response, 1)
PassagesPass == _extract_questions_from_context(<<>>, tx_context_data)
GeneralPass == _extract_general_questions(<<>>, tx_response)

TitleIntroClip ==
    <<"I","n","t","r","o"," ","C","l","i","p">>
TitleDemo ==
    <<"D","e","m","o">>
TitleMap ==
    <<"M","a","p">>
TitleTour ==
    <<"T","o","u","r">>
UrlDemo ==
    <<"h","t","t","p","s",":","/","/","y","o","u","t","u",".","b","e","/","x">>
UrlMap ==
    <<"h","t","t","p",":","/","/","h",".","i","s","/","m">>
UrlTour ==
    <<"h","t","t","p","s",":","/","/","y","o","u","t","u","b","e",".","c","o","m","/","i","n",
      "t","e","r","n","a","l","_","v","i","d","e","o","_","p","a","t","h","/","t">>
LinkedInternalUrl ==
    <<"h","t","t","p","s",":","/","/","w","w","w",".","y","o","u","t","u","b","e",".","c","o",
      "m","/","r","e","s","u","l","t","s","?","s","e","a","r","c","h","_","q","u","e","r","y",
      "=","I","n","t","r","o","+","C","l","i","p","+","h","o","s","p","i","t","a","l","+","i",
      "n","f","o","r","m","a","t","i","o","n","+","s","y","s","t","e","m">>
LinkOpening ==
    <<"V","i","d","e","o"," ","G","u","i","d","e",":"," ","[">>

\* the link the claim describes for a title and the url it is to carry
ExpectedLink(title, url) ==
    LinkOpening \o Glyph \o <<" ">> \o title \o <<"]", "(">> \o url \o <<")", "\n">>

\* what the claim describes for one fragment of a response
LinkedFragment(f) ==
    IF f = FragInternalVideo THEN ExpectedLink(TitleIntroClip, LinkedInternalUrl)
    ELSE IF f = FragYoutubeVideo THEN ExpectedLink(TitleDemo, UrlDemo)
    ELSE IF f = FragOtherVideo THEN ExpectedLink(TitleMap, UrlMap)
    ELSE IF f = FragBothVideo THEN ExpectedLink(TitleTour, UrlTour)
    ELSE f

RECURSIVE LinkedText(_)
\* ... and for a response, fragment by fragment
LinkedText(s) ==
    IF s = <<>> THEN <<>>
    ELSE LET f == CHOOSE x \in Fragments : IsPrefix(x, s)
         IN  LinkedFragment(f) \o LinkedText(SubSeq(s, Len(f) + 1, Len(s)))

\* C19: process_video_links keeps the url of a Video Guide link that names
\* youtube.com or youtu.be, also when it names internal_video_path as well; else
\* turns a url naming internal_video_path into the YouTube search for the title
\* with '+' for spaces and the suffix '+hospital+information+system'; else keeps
\* the url; puts the glyph and a space before the title in all three cases; and
\* leaves the text outside the links as it was.
C19_VideoLinksRewritten ==
    tx_stage \in {"linked", "relinked", "cleaned", "extracted"} =>
        tx_linked = LinkedText(tx_response)

\* a response with a YouTube link whose url also names internal_video_path,
\* and a link to an internal video
C19_Witness ==
    /\ tx_stage = "linked"
    /\ tx_response = FragBothVideo \o FragInternalVideo
    /\ tx_linked # tx_response

\* User and assistant messages in turn, and as many of the one as of the other
Alternating(transcript) ==
    /\ Len(transcript) % 2 = 0
    /\ \A i \in DOMAIN transcript :
           transcript[i].role = IF i % 2 = 1 THEN "User" ELSE "assistant"

\* C20: a turn in which a Completion or Retrieval call fails leaves the session
\* as far as it got: the transcript is the one before the turn with the turn's
\* User message after it and no assistant message, and the suggested questions
\* and the related documents are those before the turn. A turn keeps an
\* alternating transcript alternating exactly when none of its calls failed,
\* and a transcript that stopped alternating stays so until it is cleared.
C20_FailedTurnKeepsUserMessage ==
    [][(run'.event # "clear" /\ run'.processed # <<>>) =>
          /\ run'.raised <=> \E i \in DOMAIN calls' : IsFailure(calls'[i])
          /\ run'.raised =>
                 /\ messages' = Append(messages, UserMessage(run'.processed[1]))
                 /\ UNCHANGED <<suggested_questions, related_documents>>
          /\ Alternating(messages') <=> (Alternating(messages) /\ ~run'.raised)]_vars

\* after a completed first turn, with suggestions and documents of its own, a
\* second turn failed
C20_Witness ==
    /\ Processed /\ run.raised
    /\ Len(messages) = 3
    /\ messages[2].role = "assistant" /\ messages[3].role = "User"
    /\ suggested_questions # INITIAL_QUESTIONS
    /\ related_documents # <<>>

PathsIn(json_data) ==
    {json_data.results[k].relative_path : k \in DOMAIN json_data.results}

\* documents holds one pair per path of paths, each with a url of that path
OnePairPerPath(documents, paths) ==
    /\ Len(documents) = Cardinality(paths)
    /\ {documents[k][1] : k \in DOMAIN documents} = paths
    /\ \A k \in DOMAIN documents :
           documents[k][2] \in {URL_LINK(documents[k][1]), <<"#">>}

\* C22: a step changes the related documents only if it is a completed turn
\* with a non-empty citation set, and then to one (path, url) pair per distinct
\* path of that turn, or if it is Clear Conversation, the only step that empties
\* them; in particular a completed turn without results leaves the documents of
\* the turn before.
C22_DocumentsReplacedByCitations ==
    [][/\ (run'.event # "clear" /\ run'.processed # <<>> /\ ~run'.raised
               /\ PathsIn(run'.json_data) # {}) =>
              OnePairPerPath(related_documents', PathsIn(run'.json_data))
       /\ (run'.event # "clear" /\ run'.processed # <<>> /\ ~run'.raised
               /\ PathsIn(run'.json_data) = {}) =>
              related_documents' = related_documents
       /\ related_documents' # related_documents =>
              \/ run'.event = "clear"
              \/ run'.processed # <<>> /\ ~run'.raised /\ PathsIn(run'.json_data) # {}
       /\ (related_documents # <<>> /\ related_documents' = <<>>) => run'.event = "clear"
       /\ run'.event = "clear" => related_documents' = <<>>]_vars

\* a completed turn whose search returned nothing, with the documents of an
\* earlier turn still listed
C22_Witness ==
    /\ Completed
    /\ run.json_data = NoResults
    /\ Lookups = {}
    /\ Len(messages) = 4
    /\ related_documents # <<>>

\* the Analyst transcript a script run starts its turn from
AnalystBase(event, session) == IF event.kind = "clear" THEN <<>> ELSE session.messages

\* message is what the claim describes for reply, asked with prompt
IsErrorTurn(reply, message) ==
    /\ reply.status >= 400
    /\ message = [role |-> "analyst",
                  content |-> <<TextItem(ErrorMessage(reply.status, reply.content))>>,
                  request_id |-> reply.content.request_id]

IsAnswerTurn(reply, message) ==
    /\ reply.status < 400
    /\ message = [role |-> "analyst", content |-> reply.content.message.content,
                  request_id |-> reply.content.request_id]

\* a turn whose API call returns appends the user message and one analyst
\* message: for a status >= 400 the error text with the response's request_id,
\* setting the error-notify flag; for a status < 400 the response content,
\* leaving the flag as it was; and ends in st.rerun()
TurnAppendsReply ==
    (analyst'.last.prompts # <<>> /\ ~analyst'.last.raised) =>
        \E reply \in AnalystReplies :
            /\ ~reply.raises
            /\ Len(analyst'.session.messages) =
                   Len(AnalystBase(analyst'.last.event, analyst.session)) + 2
            /\ SubSeq(analyst'.session.messages, 1, Len(analyst'.session.messages) - 1)
                   = Append(AnalystBase(analyst'.last.event, analyst.session),
                            [role |-> "user",
                             content |-> <<TextItem(analyst'.last.prompts[1])>>,
                             request_id |-> None])
            /\ \/ /\ IsErrorTurn(reply,
                          analyst'.session.messages[Len(analyst'.session.messages)])
                  /\ analyst'.session.fire_API_error_notify
               \/ /\ IsAnswerTurn(reply,
                          analyst'.session.messages[Len(analyst'.session.messages)])
                  /\ analyst'.session.fire_API_error_notify
                         = analyst.session.fire_API_error_notify
            /\ analyst'.stage = "run"

Suggested(event, session) ==
    IF event.idx # 0
    THEN session.messages[event.idx].content[event.item].suggestions[event.s_idx]
    ELSE session.active_suggestion

\* what a script run submits: the greeting when the transcript is empty (at the
\* start, or once Clear Chat History emptied it) and nothing else in that run;
\* else the typed question, and a suggestion then stays in active_suggestion;
\* else the suggestion, with active_suggestion cleared whether or not the
\* submission fails; else nothing
SubmitsByPriority ==
    /\ AnalystBase(analyst'.last.event, analyst.session) = <<>> =>
           analyst'.last.prompts = <<GreetingQuestion>>
    /\ (AnalystBase(analyst'.last.event, analyst.session) # <<>>
           /\ analyst'.last.event.text # None) =>
           /\ analyst'.last.prompts = <<analyst'.last.event.text>>
           /\ analyst'.session.active_suggestion
                  = Suggested(analyst'.last.event, analyst.session)
    /\ (AnalystBase(analyst'.last.event, analyst.session) # <<>>
           /\ analyst'.last.event.text = None
           /\ Suggested(analyst'.last.event, analyst.session) # None) =>
           /\ analyst'.last.prompts = <<Suggested(analyst'.last.event, analyst.session)>>
           /\ analyst'.session.active_suggestion = None
    /\ (AnalystBase(analyst'.last.event, analyst.session) # <<>>
           /\ analyst'.last.event.text = None
           /\ Suggested(analyst'.last.event, analyst.session) = None) =>
           /\ analyst'.last.prompts = <<>>
           /\ analyst'.session.active_suggestion = None

====
